---- MODULE Spec2Model ----
(***************************************************************************)
(* Pire counting scanner (pire/extra/count.h) and the bench driver         *)
(* (tools/bench/bench.cpp).                                                *)
(*                                                                         *)
(* Machine words are modelled as the sets of their set bit positions:      *)
(* an Action (ui32) is a subset of 0..31, m_updatedMask (size_t, 64 bit)   *)
(* a subset of 0..63.  & is \cap, | is \cup, << adds to every position and *)
(* drops what leaves the word.  The ui32 counters m_current / m_total are  *)
(* integers of 32 bits that wrap as the machine's do.                      *)
(***************************************************************************)
EXTENDS Naturals, Integers, Sequences, FiniteSets

\* ------------------------------------------------------------- bounds
\* Largest value a counter (or a counted run) may reach in a run.
MaxCount == 2
\* Longest input the driver is run on.
MaxInputLen == 3
\* Number of transitions lowered in one run of the lowering loop.
MaxJumps == 3

\* ------------------------------------------------------------- constants
\* LoadedScanner::MAX_RE_COUNT (pire/scanners/loaded.h).
MAX_RE_COUNT == 16
\* CountingScanner::OPTIMAL_RE_COUNT.
OPTIMAL_RE_COUNT == 4
\* Width of LoadedScanner::Action (ui32) and of size_t.
ActionBits == 32
SizeBits == 64

\* LoadedScanner::IncrementMask = (1 << MAX_RE_COUNT) - 1.
IncrementMask == 0 .. (MAX_RE_COUNT - 1)
\* LoadedScanner::ResetMask = IncrementMask << MAX_RE_COUNT.
ResetMask == MAX_RE_COUNT .. (2 * MAX_RE_COUNT - 1)

\* enum { FinalFlag = 0, DeadFlag = 1, Matched = 2 } as bit sets.
FinalFlag == {}
DeadFlag == {0}
Matched == {1}

ReIdx == 0 .. (MAX_RE_COUNT - 1)

\* ------------------------------------------------------------- words
\* (word << n) kept to `width` bits.
Shl(word, n, width) == {b + n : b \in word} \cap (0 .. (width - 1))
\* (Action)~mask, zero-extended when it meets a size_t.
NotAction(mask) == (0 .. (ActionBits - 1)) \ mask

\* A ui32 is held as the integer that has its 32 bits in two's complement:
\* 0 .. 2^31 - 1 as themselves, 2^31 .. 2^32 - 1 as the value less 2^32, so
\* that the largest ui32, 2^32 - 1, is the integer -1.
Ui32Top == 2147483647
Ui32Max == -1
\* ++c on a ui32: 2^32 - 1 wraps to 0.
Ui32Inc(c) == IF c = Ui32Top THEN (-Ui32Top) - 1 ELSE c + 1
\* a < b on ui32
Ui32Less(a, b) == IF (a < 0) = (b < 0) THEN a < b ELSE b < 0

ymax(a, b) == IF Ui32Less(a, b) THEN b ELSE a

\* ------------------------------------------------------------- State
ZeroCounters == [i \in ReIdx |-> 0]

\* PerformIncrementer that bumps a counter whenever the mask has any bit set.
RECURSIVE PerformIncrementer_AnyBit(_, _, _)
PerformIncrementer_AnyBit(I, st, mask) ==
    IF I = 0 THEN st
    ELSE LET s1 == IF mask # {}
                   THEN [st EXCEPT !.m_current[I - 1] = Ui32Inc(@)]
                   ELSE st
         IN  PerformIncrementer_AnyBit(I - 1, s1, mask)

\* PerformIncrementer<I>::Do
RECURSIVE PerformIncrementer(_, _, _)
PerformIncrementer(I, st, mask) ==
    IF I = 0 THEN st
    ELSE LET s1 == IF (I - 1) \in mask
                   THEN [st EXCEPT !.m_current[I - 1] = Ui32Inc(@)]
                   ELSE st
         IN  PerformIncrementer(I - 1, s1, mask)

\* PerformReseter<I>::Do
RECURSIVE PerformReseter(_, _, _)
PerformReseter(I, st, mask) ==
    IF I = 0 THEN st
    ELSE LET s1 == IF (MAX_RE_COUNT + (I - 1)) \in mask /\ st.m_current[I - 1] # 0
                   THEN [st EXCEPT
                           !.m_total[I - 1] = ymax(st.m_total[I - 1], st.m_current[I - 1]),
                           !.m_current[I - 1] = 0]
                   ELSE st
         IN  PerformReseter(I - 1, s1, mask)

\* CountingScanner::PerformIncrement<ActualReCount>
PerformIncrement(ActualReCount, st, mask) ==
    IF mask # {}
    THEN [PerformIncrementer(ActualReCount, st, mask) EXCEPT
            !.m_updatedMask = @ \cup Shl(mask, MAX_RE_COUNT, SizeBits)]
    ELSE st

\* PerformReset that leaves m_updatedMask as it was.
PerformReset_KeepMask(ActualReCount, st, mask0) ==
    LET mask == mask0 \cap st.m_updatedMask
    IN  IF mask # {} THEN PerformReseter(ActualReCount, st, mask) ELSE st

\* CountingScanner::PerformReset<ActualReCount>
PerformReset(ActualReCount, st, mask0) ==
    LET mask == mask0 \cap st.m_updatedMask
    IN  IF mask # {}
        THEN [PerformReseter(ActualReCount, st, mask) EXCEPT
                !.m_updatedMask = @ \cap NotAction(mask)]
        ELSE st

\* TakeActionImpl without the test for Increment bits.
TakeActionImpl_AlwaysIncrement(ActualReCount, st, a) ==
    LET s1 == PerformIncrement(ActualReCount, st, a)
    IN  IF a \cap ResetMask # {}
        THEN PerformReset(ActualReCount, s1, a) ELSE s1

\* CountingScanner::TakeActionImpl<ActualReCount>
TakeActionImpl(ActualReCount, st, a) ==
    LET s1 == IF a \cap IncrementMask # {}
              THEN PerformIncrement(ActualReCount, st, a) ELSE st
    IN  IF a \cap ResetMask # {}
        THEN PerformReset(ActualReCount, s1, a) ELSE s1

\* CountingScanner::TakeAction
TakeAction(st, a) == TakeActionImpl(OPTIMAL_RE_COUNT, st, a)

\* CountingScanner::State::Result
Result(st, i) == ymax(st.m_current[i], st.m_total[i])

\* ------------------------------------------------------------- scanner table
\* sizeof(LoadedScanner::Transition): union { size_t raw; struct { ui32 shift; Action action; }; }
TransitionSize == 8
\* SpecialChar::BeginMark / EndMark; Char is wider than a byte.
BeginMark == 258
EndMark == 259
\* The bytes 'a', 'b' and 'x' (any other byte).
ByteA == 97
ByteB == 98
ByteX == 120
Bytes == {ByteA, ByteB, ByteX}
Chars == Bytes \cup {BeginMark, EndMark}

\* m_letters: the class of every symbol; the marks have classes of their own.
m_letters ==
    [ch \in Chars |->
        CASE ch = ByteX -> 0 [] ch = ByteA -> 1 [] ch = ByteB -> 2
          [] ch = BeginMark -> 3 [] ch = EndMark -> 4]
\* m.lettersCount, m.statesCount
LettersCount == 5
StatesCount == 3
\* Address of m_jumps[0].
JumpsBase == 4096

\* The determined FSM the scanner is lowered from: target state and output
\* tag of every (state, letter).  State 0: no match pending, state 1: just
\* matched the target, state 2: target followed by separator.
FsmTo ==
    << <<0, 1, 0, 0, 0>>,
       <<0, 0, 2, 1, 1>>,
       <<0, 1, 2, 2, 2>> >>
FsmOutput ==
    << <<FinalFlag, Matched \cup DeadFlag, FinalFlag, FinalFlag, FinalFlag>>,
       <<DeadFlag, DeadFlag, FinalFlag, FinalFlag, FinalFlag>>,
       <<DeadFlag, Matched \cup DeadFlag, FinalFlag, FinalFlag, Matched>> >>

\* RemapAction that tests the tag bits instead of comparing the tag.
RemapAction_BitTest(action) ==
    IF (Matched \cup DeadFlag) \subseteq action THEN {0}
    ELSE IF DeadFlag \subseteq action THEN Shl({0}, MAX_RE_COUNT, ActionBits)
    ELSE {}

\* CountingScanner::RemapAction
RemapAction(action) ==
    IF action = (Matched \cup DeadFlag) THEN {0}
    ELSE IF action = DeadFlag THEN Shl({0}, MAX_RE_COUNT, ActionBits)
    ELSE {}

\* A ui32 as its two 16-bit halves; the value of a signed difference d
\* stored in it (two's complement).
ToUi32(d) ==
    IF d >= 0 THEN [hi |-> d \div 65536, lo |-> d % 65536]
    ELSE LET m == (-d) - 1
         IN  [hi |-> 65535 - (m \div 65536), lo |-> 65535 - (m % 65536)]
\* LoadedScanner::SignExtend(i32)
SignExtend(x) ==
    IF x.hi >= 32768 THEN (x.hi - 65536) * 65536 + x.lo
    ELSE x.hi * 65536 + x.lo

\* Address of the row of state q.
RowAddr(q) == JumpsBase + q * LettersCount * TransitionSize

\* m_jumps as BuildScanner / SetJump fill it: a relative shift and the
\* remapped action for every (state, letter).
m_jumps ==
    [k \in 0 .. (StatesCount * LettersCount - 1) |->
        LET q == k \div LettersCount
            l == k % LettersCount
        IN  [shift  |-> ToUi32(RowAddr(FsmTo[q + 1][l + 1]) - RowAddr(q)),
             action |-> RemapAction(FsmOutput[q + 1][l + 1])]]
\* m.initial
m_initial == RowAddr(0)

\* reinterpret_cast<const Transition*>(addr)[c]
TransitionAt(addr, c) == m_jumps[((addr - JumpsBase) \div TransitionSize) + c]

\* LoadedScanner::StateIdx
StateIdx(addr) == ((addr - JumpsBase) \div TransitionSize) \div LettersCount

\* Initialize that forgets m_total.
Initialize_KeepTotal(st) ==
    [st EXCEPT !.m_state = m_initial,
               !.m_current = ZeroCounters,
               !.m_updatedMask = {}]

\* CountingScanner::Initialize
Initialize(st) ==
    [st EXCEPT !.m_state = m_initial,
               !.m_current = ZeroCounters,
               !.m_total = ZeroCounters,
               !.m_updatedMask = {}]

\* CountingScanner::Translate
Translate(ch) == m_letters[ch]

\* NextTranslated that reads the shift as a 16-bit unsigned offset.
NextTranslated_Truncated(st, c) ==
    LET x == TransitionAt(st.m_state, c)
    IN  [st |-> [st EXCEPT !.m_state = @ + x.shift.lo],
         action |-> x.action]

\* CountingScanner::NextTranslated: the new state and the returned action.
NextTranslated(st, c) ==
    LET x == TransitionAt(st.m_state, c)
    IN  [st |-> [st EXCEPT !.m_state = @ + SignExtend(x.shift)],
         action |-> x.action]

\* CountingScanner::Next(State&, Char)
NextChar(st, ch) == NextTranslated(st, Translate(ch))

\* The two-state Next that advances the source whatever n is.
NextCopy_InPlace(current, n0, same, ch) ==
    LET r == NextChar(current, ch)
    IN  [current |-> r.st, n |-> r.st, action |-> r.action]

\* CountingScanner::Next(const State& current, State& n, Char c):
\* n = current; return Next(n, c);
\* same: the caller passes one object for both, so advancing n advances current.
NextCopy(current, n0, same, ch) ==
    LET n1 == current
        r == NextChar(n1, ch)
    IN  [current |-> IF same THEN r.st ELSE current,
         n |-> r.st, action |-> r.action]

\* CountingScanner::StateIndex
StateIndex(st) == StateIdx(st.m_state)

\* CanStop that allows a stop in the scanner's first state.
CanStop_AtStart(st) == StateIndex(st) = 0

\* CountingScanner::CanStop / Final / Dead
CanStop(st) == FALSE
Final(st) == FALSE
Dead(st) == FALSE

\* ------------------------------------------------------------- driver
\* Pire::Step (pire/run.h): the scanner advances, then takes the action
\* the transition returned.
Step(st, ch) ==
    LET n == NextChar(st, ch)
    IN  [st |-> TakeAction(n.st, n.action), action |-> n.action]

\* ------------------------------------------------------------- inputs
\* Pattern indices the action words of the API runs speak about: the last one
\* below OPTIMAL_RE_COUNT and the first one from OPTIMAL_RE_COUNT on.
Patterns == {OPTIMAL_RE_COUNT - 1, OPTIMAL_RE_COUNT}
IncBit(i) == i
ResetBit(i) == MAX_RE_COUNT + i
\* The instances of TakeActionImpl<ActualReCount>, PerformIncrementer<I> and
\* PerformReseter<I> taken of the 0 .. MAX_RE_COUNT a caller may use: the
\* least, the greatest, TakeAction's own and its two neighbours. Instance I
\* acts on the patterns below I, so that on words over Patterns each of the
\* others makes of a State what one of these five does.
ReCounts == {0, OPTIMAL_RE_COUNT - 1, OPTIMAL_RE_COUNT, OPTIMAL_RE_COUNT + 1, MAX_RE_COUNT}
\* Every action word over the increment and reset bits of Patterns.
Actions == SUBSET ({IncBit(i) : i \in Patterns} \cup {ResetBit(i) : i \in Patterns})
\* Tags a transition of the FSM may carry (bits 0..2).
Tags == SUBSET {0, 1, 2}
\* Inputs of the driver: every byte string of at most MaxInputLen bytes.
Inputs == UNION {[1 .. n -> Bytes] : n \in 0 .. MaxInputLen}

\* What the memory of a State holds before Initialize has run on it.
GarbageStates ==
    { [m_state |-> 0, m_current |-> ZeroCounters, m_total |-> ZeroCounters,
       m_updatedMask |-> {}],
      [m_state |-> RowAddr(2),
       m_current |-> [i \in ReIdx |-> 1],
       m_total |-> [i \in ReIdx |-> IF i = 0 THEN 2 ELSE 0],
       m_updatedMask |-> {ResetBit(0), ResetBit(OPTIMAL_RE_COUNT), 2 * MAX_RE_COUNT + 1}] }

\* What a State of the caller holds when no call has written it.
Scratch == [m_state |-> 0, m_current |-> ZeroCounters, m_total |-> ZeroCounters,
            m_updatedMask |-> {}]

\* The bits of action word a that speak about pattern j.
OnlyBitsOf(a, j) == a \cap {IncBit(j), ResetBit(j)}

VARIABLES
    s,          \* the State of the reader
    nCopy,      \* the State n of the last two-state Next(current, n, c)
    solo,       \* per pattern j, the State that saw only the bits of j
    share,      \* two readers of one scanner: the scanner and each reader's record
    bench,      \* the benchmark's testers: scanners, input, runs made, reports
    comp,       \* one call of Compile for the multi-pattern scanner
    cli,        \* Main: the arguments read so far and what came of them
    inited,     \* Initialize has run on s
    pre,        \* s before the last operation
    last,       \* the last operation: its name, action word, symbol and ActualReCount
    runLen,     \* per pattern: Increment bits applied since the last Reset bit
    bestRun,    \* per pattern: longest run a Reset bit has ended
    input,      \* the driver's input
    pos,        \* bytes of input the driver has consumed
    phase,      \* where the driver is
    lowered     \* the transitions lowered so far: tag and remapped action

vars == <<s, inited, pre, last, runLen, bestRun, input, pos, phase, lowered,
          nCopy, solo, share, bench, comp, cli>>

apiExt == <<nCopy, solo>>
\* The variables of the other specifications, and their value when unused.
extVars == <<share, bench, comp, cli>>
ExtIdle == share = << >> /\ bench = << >> /\ comp = << >> /\ cli = << >>

NoOp == [op |-> "none", a |-> {}, ch |-> 0, re |-> 0]

\* The runs as the action word a extends and ends them: its Increment bits
\* first, then its Reset bits.
RunAfter(run, a) ==
    [i \in ReIdx |->
        IF ResetBit(i) \in a THEN 0
        ELSE IF IncBit(i) \in a THEN run[i] + 1 ELSE run[i]]
BestAfter(best, run, a) ==
    [i \in ReIdx |->
        IF ResetBit(i) \in a
        THEN ymax(best[i], IF IncBit(i) \in a THEN run[i] + 1 ELSE run[i])
        ELSE best[i]]

\* No counter and no counted run exceeds MaxCount.
WithinBound(st, run) ==
    \A i \in ReIdx : st.m_current[i] <= MaxCount /\ run[i] <= MaxCount

\* The counted runs are kept where TakeAction is the only counting call.
GhostRun(a) == IF phase = "api" THEN RunAfter(runLen, a) ELSE runLen
GhostBest(a) == IF phase = "api" THEN BestAfter(bestRun, runLen, a) ELSE bestRun

driverVars == <<input, pos, phase>>

\* ------------------------------------------------------------- Spec: the API
Init ==
    /\ s \in GarbageStates
    /\ inited = FALSE
    /\ pre = s
    /\ last = NoOp
    /\ runLen = ZeroCounters
    /\ bestRun = ZeroCounters
    /\ input = << >>
    /\ pos = 0
    /\ phase = "api"
    /\ lowered = << >>
    /\ nCopy = Scratch
    /\ solo = [j \in Patterns |-> s]
    /\ ExtIdle

\* sc.Initialize(state)
CallInitialize ==
    /\ phase = "api"
    /\ s' = Initialize(s)
    /\ inited' = TRUE
    /\ pre' = s
    /\ last' = [op |-> "Initialize", a |-> {}, ch |-> 0, re |-> 0]
    /\ runLen' = ZeroCounters
    /\ bestRun' = ZeroCounters
    /\ nCopy' = Scratch
    /\ solo' = [j \in Patterns |-> Initialize(solo[j])]
    /\ UNCHANGED <<driverVars, lowered, extVars>>

\* sc.TakeAction(state, a)
CallTakeAction(a) ==
    /\ phase = "api"
    /\ inited
    /\ LET r == TakeAction(s, a)
       IN  WithinBound(r, GhostRun(a)) /\ s' = r
    /\ pre' = s
    /\ last' = [op |-> "TakeAction", a |-> a, ch |-> 0, re |-> OPTIMAL_RE_COUNT]
    /\ runLen' = GhostRun(a)
    /\ bestRun' = GhostBest(a)
    /\ nCopy' = Scratch
    /\ solo' = [j \in Patterns |-> TakeAction(solo[j], OnlyBitsOf(a, j))]
    /\ UNCHANGED <<inited, driverVars, lowered, extVars>>

\* a = sc.Next(state, ch)
CallNext(ch) ==
    /\ phase = "api"
    /\ inited
    /\ s' = NextChar(s, ch).st
    /\ pre' = s
    /\ last' = [op |-> "Next", a |-> NextChar(s, ch).action, ch |-> ch, re |-> 0]
    /\ nCopy' = Scratch
    /\ solo' = [j \in Patterns |-> NextChar(solo[j], ch).st]
    /\ UNCHANGED <<inited, runLen, bestRun, driverVars, lowered, extVars>>

\* a = sc.Next(state, n, ch): state is the source, n another State of the caller
CallNextCopy(ch) ==
    /\ phase = "api"
    /\ inited
    /\ s' = NextCopy(s, nCopy, FALSE, ch).current
    /\ nCopy' = NextCopy(s, nCopy, FALSE, ch).n
    /\ pre' = s
    /\ last' = [op |-> "NextCopy", a |-> NextCopy(s, nCopy, FALSE, ch).action,
                ch |-> ch, re |-> 0]
    /\ UNCHANGED <<inited, runLen, bestRun, solo, driverVars, lowered, extVars>>

\* a = sc.Next(state, state, ch): one object is both the source and n
CallNextSelf(ch) ==
    /\ phase = "api"
    /\ inited
    /\ s' = NextCopy(s, s, TRUE, ch).current
    /\ nCopy' = Scratch
    /\ pre' = s
    /\ last' = [op |-> "NextSelf", a |-> NextCopy(s, s, TRUE, ch).action,
                ch |-> ch, re |-> 0]
    /\ solo' = [j \in Patterns |-> NextCopy(solo[j], solo[j], TRUE, ch).current]
    /\ UNCHANGED <<inited, runLen, bestRun, driverVars, lowered, extVars>>

Next ==
    \/ CallInitialize
    \/ \E a \in Actions : CallTakeAction(a)
    \/ \E ch \in Chars : CallNext(ch)
    \/ \E ch \in Chars : CallNextCopy(ch)
    \/ \E ch \in Chars : CallNextSelf(ch)

Spec == Init /\ [][Next]_vars

\* ------------------------------------------------------------- SpecCount: counting
\* The counting calls alone, with every instance of TakeActionImpl,
\* PerformIncrementer and PerformReseter a caller may use: the scanner stays
\* on the row Initialize puts it on.

\* The State after Initialize and 2^32 - 1 calls of TakeAction with the
\* Increment bit of pattern i, i < OPTIMAL_RE_COUNT.
LongRun(i) ==
    [Initialize(Scratch) EXCEPT !.m_current[i] = Ui32Max,
                                !.m_updatedMask = {ResetBit(i)}]

\* A run starts on a State no call has written yet or on one that a long
\* run of increments has brought to the end of the ui32 range.
InitCount ==
    /\ \/ /\ s \in GarbageStates
          /\ inited = FALSE
          /\ solo = [j \in Patterns |-> s]
       \/ /\ s = LongRun(OPTIMAL_RE_COUNT - 1)
          /\ inited = TRUE
          /\ solo = [j \in Patterns |->
                        IF j = OPTIMAL_RE_COUNT - 1 THEN s ELSE Initialize(Scratch)]
    /\ pre = s
    /\ last = NoOp
    /\ runLen = ZeroCounters
    /\ bestRun = ZeroCounters
    /\ input = << >>
    /\ pos = 0
    /\ phase = "count"
    /\ lowered = << >>
    /\ nCopy = Scratch
    /\ ExtIdle

\* No counter in progress exceeds MaxCount, unless it is the largest ui32.
CountWithin(st) ==
    \A i \in ReIdx : st.m_current[i] \in (0 .. MaxCount) \cup {Ui32Max}

\* pre and last hold the call a run ends with: a call either goes unrecorded
\* and the run goes on, or is recorded and is the last of the run. What a
\* call does depends on neither, so that every call on every State a run
\* reaches is recorded by some run.
Recorded(rec, op, a, re) ==
    IF rec
    THEN pre' = s /\ last' = [op |-> op, a |-> a, ch |-> 0, re |-> re]
    ELSE UNCHANGED <<pre, last>>
countOthers == <<runLen, bestRun, nCopy, driverVars, lowered, extVars>>

\* sc.Initialize(state)
CountInitialize ==
    /\ phase = "count"
    /\ last = NoOp
    /\ s' = Initialize(s)
    /\ inited' = TRUE
    /\ solo' = [j \in Patterns |-> Initialize(solo[j])]
    /\ \E rec \in BOOLEAN : Recorded(rec, "Initialize", {}, 0)
    /\ UNCHANGED countOthers

\* sc.TakeAction(state, a)
CountTakeAction(a) ==
    /\ phase = "count"
    /\ last = NoOp
    /\ inited
    /\ LET r == TakeAction(s, a)
       IN  CountWithin(r) /\ s' = r
    /\ solo' = [j \in Patterns |-> TakeAction(solo[j], OnlyBitsOf(a, j))]
    /\ \E rec \in BOOLEAN : Recorded(rec, "TakeAction", a, OPTIMAL_RE_COUNT)
    /\ UNCHANGED <<inited, countOthers>>

\* sc.TakeActionImpl<re>(state, a), the public template TakeAction is one
\* instance of
CountTakeActionImpl(re, a) ==
    /\ phase = "count"
    /\ last = NoOp
    /\ inited
    /\ LET r == TakeActionImpl(re, s, a)
       IN  CountWithin(r) /\ s' = r
    /\ solo' = [j \in Patterns |-> TakeActionImpl(re, solo[j], OnlyBitsOf(a, j))]
    /\ \E rec \in BOOLEAN : Recorded(rec, "TakeActionImpl", a, re)
    /\ UNCHANGED <<inited, countOthers>>

\* PerformIncrementer<I>::Do(state, mask): a public static member
CountPerformIncrementer(I, mask) ==
    /\ phase = "count"
    /\ last = NoOp
    /\ inited
    /\ LET r == PerformIncrementer(I, s, mask)
       IN  CountWithin(r) /\ s' = r
    /\ solo' = [j \in Patterns |-> PerformIncrementer(I, solo[j], OnlyBitsOf(mask, j))]
    /\ \E rec \in BOOLEAN : Recorded(rec, "PerformIncrementer", mask, I)
    /\ UNCHANGED <<inited, countOthers>>

\* PerformReseter<I>::Do(state, mask): a public static member
CountPerformReseter(I, mask) ==
    /\ phase = "count"
    /\ last = NoOp
    /\ inited
    /\ s' = PerformReseter(I, s, mask)
    /\ solo' = [j \in Patterns |-> PerformReseter(I, solo[j], OnlyBitsOf(mask, j))]
    /\ \E rec \in BOOLEAN : Recorded(rec, "PerformReseter", mask, I)
    /\ UNCHANGED <<inited, countOthers>>

NextCount ==
    \/ CountInitialize
    \/ \E a \in Actions : CountTakeAction(a)
    \/ \E re \in ReCounts, a \in Actions : CountTakeActionImpl(re, a)
    \/ \E I \in ReCounts, mask \in Actions : CountPerformIncrementer(I, mask)
    \/ \E I \in ReCounts, mask \in Actions : CountPerformReseter(I, mask)

SpecCount == InitCount /\ [][NextCount]_vars

\* ------------------------------------------------------------- SpecRun: the driver
\* Pire::Runner over one input: the constructor initializes the state, Begin
\* feeds BeginMark, Run feeds the bytes in order (and may leave the loop when
\* the scanner says CanStop), End feeds EndMark.
InitRun ==
    /\ s \in GarbageStates
    /\ inited = FALSE
    /\ pre = s
    /\ last = NoOp
    /\ runLen = ZeroCounters
    /\ bestRun = ZeroCounters
    /\ input \in Inputs
    /\ pos = 0
    /\ phase = "new"
    /\ lowered = << >>
    /\ nCopy = Scratch
    /\ solo = [j \in Patterns |-> s]
    /\ ExtIdle

\* One Pire::Step of the driver on symbol ch.
Feed(ch) ==
    LET r == Step(s, ch)
    IN  /\ s' = r.st
        /\ pre' = s
        /\ last' = [op |-> "Step", a |-> r.action, ch |-> ch, re |-> 0]
        /\ runLen' = RunAfter(runLen, r.action)
        /\ bestRun' = BestAfter(bestRun, runLen, r.action)

\* Runner::Runner
RunnerCtor ==
    /\ phase = "new"
    /\ s' = Initialize(s)
    /\ inited' = TRUE
    /\ pre' = s
    /\ last' = [op |-> "Initialize", a |-> {}, ch |-> 0, re |-> 0]
    /\ phase' = "ready"
    /\ UNCHANGED <<runLen, bestRun, input, pos, lowered, apiExt, extVars>>

\* Runner::Begin
RunnerBegin ==
    /\ phase = "ready"
    /\ Feed(BeginMark)
    /\ phase' = "run"
    /\ UNCHANGED <<inited, input, pos, lowered, apiExt, extVars>>

\* Runner::Run, one byte
RunnerRunByte ==
    /\ phase = "run"
    /\ pos < Len(input)
    /\ ~CanStop(s)
    /\ Feed(input[pos + 1])
    /\ pos' = pos + 1
    /\ UNCHANGED <<inited, input, phase, lowered, apiExt, extVars>>

\* Runner::Run returns: the input is used up, or the scanner allows a stop
RunnerRunExit ==
    /\ phase = "run"
    /\ (pos = Len(input) \/ CanStop(s))
    /\ phase' = "fed"
    /\ UNCHANGED <<s, inited, pre, last, runLen, bestRun, input, pos, lowered, apiExt, extVars>>

\* Runner::End
RunnerEnd ==
    /\ phase = "fed"
    /\ Feed(EndMark)
    /\ phase' = "done"
    /\ UNCHANGED <<inited, input, pos, lowered, apiExt, extVars>>

NextRun ==
    \/ RunnerCtor
    \/ RunnerBegin
    \/ RunnerRunByte
    \/ RunnerRunExit
    \/ RunnerEnd

SpecRun == InitRun /\ [][NextRun]_vars

\* ------------------------------------------------------------- SpecLower: lowering
\* Number of patterns of a scanner built from one (re, sep) pair.
LoweredReCount == 1

InitLower ==
    /\ s \in GarbageStates
    /\ inited = FALSE
    /\ pre = s
    /\ last = NoOp
    /\ runLen = ZeroCounters
    /\ bestRun = ZeroCounters
    /\ input = << >>
    /\ pos = 0
    /\ phase = "lower"
    /\ lowered = << >>
    /\ nCopy = Scratch
    /\ solo = [j \in Patterns |-> s]
    /\ ExtIdle

\* BuildScanner lowers one more transition, whose FSM output is tag.
LowerJump(tag) ==
    /\ phase = "lower"
    /\ Len(lowered) < MaxJumps
    /\ lowered' = Append(lowered, [tag |-> tag, action |-> RemapAction(tag)])
    /\ UNCHANGED <<s, inited, pre, last, runLen, bestRun, input, pos, phase, apiExt, extVars>>

NextLower == \E tag \in Tags : LowerJump(tag)

SpecLower == InitLower /\ [][NextLower]_vars

\* ------------------------------------------------------------- SpecShare: two readers
\* Two readers of one compiled scanner. Each owns a State and runs, at its own
\* pace, Initialize and then Next and TakeAction for every byte of its input.
\* The owner of the scanner object may swap it with, or assign to it, its
\* other scanner object between two calls of the readers.
MaxShareLen == 2
\* Number of times the owner swaps or assigns the scanner in one run.
MaxOwnerOps == 1
Readers == {1, 2}
ShareInputs == UNION {[1 .. k -> Bytes] : k \in 0 .. MaxShareLen}

\* What the methods read of the scanner: all of them are const.
ScannerImage == [initial |-> m_initial, letters |-> m_letters, jumps |-> m_jumps]
\* The owner's other scanner object: a compiled scanner with a table of its
\* own, here one of the same letters and jumps that starts in the row of
\* state 1.
OtherImage == [initial |-> RowAddr(1), letters |-> m_letters, jumps |-> m_jumps]

\* m_state is an address. What it points into: the table the scanner object
\* holds, the table the owner's other object holds, or a table that has been
\* destroyed.
PointsTo == {"scanner", "other", "freed"}

\* The byte reader r is at: call 2k-1 is Next on byte k, call 2k its TakeAction.
ByteAt(rd) == rd.input[(rd.pc + 1) \div 2]
ShareDone(rd) == rd.pc = 2 * Len(rd.input) + 1

\* The calls take the scanner objects and the States of all readers as they
\* are and give them back as the call leaves them. Of a reader: st its State,
\* act the action of its last Next, on what the scanner object held at its
\* Initialize, into where its m_state points, any whether st and act hold
\* values nobody can name, sound whether each of its calls so far was made on
\* the scanner object holding what it held at its Initialize.
\* sc.Initialize(state of r): m_state is the m.initial of the scanner object
\* as it is at the call.
ShareInitialize(sh, r) ==
    [sh EXCEPT !.readers[r].st = [Initialize(@) EXCEPT !.m_state = sh.scanner.initial],
               !.readers[r].on = sh.scanner,
               !.readers[r].into = "scanner",
               !.readers[r].any = FALSE,
               !.readers[r].pc = 1]

\* What sc.Next(state of r, byte) can come to. NextTranslated reads the
\* transition at m_state: inside a living table the read is defined; a read
\* of a destroyed table finds what was there, finds something else, or ends
\* the process; from an m_state nobody can name it finds something else or
\* ends the process.
NextOutcomes(rd) ==
    IF rd.any THEN {"undefined", "ended"}
    ELSE IF rd.into = "freed" THEN {"intact", "undefined", "ended"}
    ELSE {"intact"}

\* The State and the action nobody can name stand as these.
AnyState == Scratch
AnyAction == {}

\* act of r = sc.Next(state of r, byte)
ShareNext(sh, r, how) ==
    LET rd == sh.readers[r]
        x == NextChar(rd.st, ByteAt(rd))
    IN  CASE how = "intact" ->
                [sh EXCEPT !.readers[r].st = x.st, !.readers[r].act = x.action,
                           !.readers[r].sound =
                               @ /\ rd.into = "scanner" /\ sh.scanner = rd.on,
                           !.readers[r].pc = @ + 1]
          [] how = "undefined" ->
                [sh EXCEPT !.readers[r].st = AnyState,
                           !.readers[r].act = AnyAction,
                           !.readers[r].any = TRUE,
                           !.readers[r].sound = FALSE,
                           !.readers[r].pc = @ + 1]
          [] how = "ended" ->
                [sh EXCEPT !.readers[r].sound = FALSE, !.ended = TRUE]

\* TakeAction that keeps the counters in one place for all readers.
ShareTakeAction_Static(sh, r) ==
    LET n1 == TakeAction(sh.readers[r].st, sh.readers[r].act)
    IN  [sh EXCEPT !.readers =
            [q \in DOMAIN sh.readers |->
                IF q = r
                THEN [sh.readers[q] EXCEPT !.st = n1, !.pc = @ + 1]
                ELSE [sh.readers[q] EXCEPT !.st.m_current = n1.m_current,
                                           !.st.m_total = n1.m_total,
                                           !.st.m_updatedMask = n1.m_updatedMask]]]

\* sc.TakeAction(state of r, act of r): it reads nothing of the scanner; from
\* a State and an action nobody can name it leaves a State nobody can name.
ShareTakeAction(sh, r) ==
    IF sh.readers[r].any
    THEN [sh EXCEPT !.readers[r].pc = @ + 1]
    ELSE [sh EXCEPT !.readers[r].st = TakeAction(@, sh.readers[r].act),
                    !.readers[r].pc = @ + 1]

\* CountingScanner::Swap: the two objects exchange what they hold; the tables
\* stay where they are, so that an m_state into the table of one object now
\* points into the table of the other.
ShareSwap(sh) ==
    [sh EXCEPT !.scanner = sh.other, !.other = sh.scanner, !.ops = @ + 1,
               !.readers = [r \in DOMAIN sh.readers |->
                   [sh.readers[r] EXCEPT !.into =
                       CASE @ = "scanner" -> "other"
                         [] @ = "other" -> "scanner"
                         [] OTHER -> @]]]

\* CountingScanner::operator=: CountingScanner(s).Swap(*this); return *this;
\* the temporary is a copy of s with a table of its own, takes what *this
\* held in the Swap and is destroyed with it.
ShareAssign(sh) ==
    LET tmp == sh.other
    IN  [sh EXCEPT !.scanner = tmp, !.ops = @ + 1,
                   !.readers = [r \in DOMAIN sh.readers |->
                       [sh.readers[r] EXCEPT !.into =
                           IF @ = "scanner" THEN "freed" ELSE @]]]

\* What reader rd has after its first k calls when nobody else runs and the
\* scanner stays what it was at the reader's Initialize.
RECURSIVE RunAlone(_, _)
RunAlone(rd, k) ==
    IF k = 0 THEN [st |-> rd.mem0, act |-> {}]
    ELSE LET p == RunAlone(rd, k - 1)
         IN  IF k = 1
             THEN [st |-> [Initialize(p.st) EXCEPT !.m_state = rd.on.initial],
                   act |-> p.act]
             ELSE IF k % 2 = 0
                  THEN [st |-> NextChar(p.st, rd.input[k \div 2]).st,
                        act |-> NextChar(p.st, rd.input[k \div 2]).action]
                  ELSE [st |-> TakeAction(p.st, p.act), act |-> p.act]

coreVars == <<s, inited, pre, last, runLen, bestRun, input, pos, lowered, nCopy, solo>>
CoreIdle ==
    /\ s = Scratch
    /\ inited = FALSE
    /\ pre = s
    /\ last = NoOp
    /\ runLen = ZeroCounters
    /\ bestRun = ZeroCounters
    /\ input = << >>
    /\ pos = 0
    /\ lowered = << >>
    /\ nCopy = Scratch
    /\ solo = [j \in Patterns |-> s]

\* The State of each reader starts as whatever its memory held.
InitShare ==
    /\ CoreIdle
    /\ phase = "share"
    /\ bench = << >>
    /\ comp = << >>
    /\ cli = << >>
    /\ share \in [scanner : {ScannerImage},
                  other : {OtherImage},
                  ended : {FALSE},
                  ops : {0},
                  readers : [Readers ->
                      {[st |-> g, mem0 |-> g, input |-> i, pc |-> 0, act |-> {},
                        on |-> ScannerImage, into |-> "scanner", any |-> FALSE,
                        sound |-> TRUE] :
                          g \in GarbageStates, i \in ShareInputs}]]

ReaderInitialize(r) ==
    /\ phase = "share"
    /\ ~share.ended
    /\ share.readers[r].pc = 0
    /\ share' = ShareInitialize(share, r)
    /\ UNCHANGED <<coreVars, phase, bench, comp, cli>>

ReaderNext(r, how) ==
    /\ phase = "share"
    /\ ~share.ended
    /\ share.readers[r].pc % 2 = 1
    /\ ~ShareDone(share.readers[r])
    /\ how \in NextOutcomes(share.readers[r])
    /\ share' = ShareNext(share, r, how)
    /\ UNCHANGED <<coreVars, phase, bench, comp, cli>>

ReaderTakeAction(r) ==
    /\ phase = "share"
    /\ ~share.ended
    /\ share.readers[r].pc > 0
    /\ share.readers[r].pc % 2 = 0
    /\ share' = ShareTakeAction(share, r)
    /\ UNCHANGED <<coreVars, phase, bench, comp, cli>>

\* The owner swaps the scanner with its other scanner object, between two
\* calls of the readers.
OwnerSwap ==
    /\ phase = "share"
    /\ ~share.ended
    /\ share.ops < MaxOwnerOps
    /\ share' = ShareSwap(share)
    /\ UNCHANGED <<coreVars, phase, bench, comp, cli>>

\* The owner assigns its other scanner object to the scanner, between two
\* calls of the readers.
OwnerAssign ==
    /\ phase = "share"
    /\ ~share.ended
    /\ share.ops < MaxOwnerOps
    /\ share' = ShareAssign(share)
    /\ UNCHANGED <<coreVars, phase, bench, comp, cli>>

NextShare ==
    \/ \E r \in Readers : ReaderInitialize(r)
    \/ \E r \in Readers, how \in {"intact", "undefined", "ended"} : ReaderNext(r, how)
    \/ \E r \in Readers : ReaderTakeAction(r)
    \/ OwnerSwap
    \/ OwnerAssign

SpecShare == InitShare /\ [][NextShare]_vars

\* ------------------------------------------------------------- SpecBench: the testers
\* The scanners of the benchmark (Pire::SimpleScanner, Pire::Scanner) are
\* dense tables over the letter classes of m_letters. A scanner is its first
\* state, its rows, its final states and, per state, the sorted list of the
\* regexps accepted there.
\* ^a+$ : 0 start, 1 begun, 2 in the run of a, 3 accepted, 4 dead.
SimpleAnchored ==
    [kind |-> "simple", initial |-> 0,
     to |-> << <<4, 4, 4, 1, 4>>, <<4, 2, 4, 4, 4>>, <<4, 2, 4, 4, 3>>,
               <<4, 4, 4, 4, 4>>, <<4, 4, 4, 4, 4>> >>,
     final |-> {3},
     accepted |-> << << >>, << >>, << >>, <<0>>, << >> >>]
\* b anywhere : 0 no b yet, 1 a b seen.
SimpleContains ==
    [kind |-> "simple", initial |-> 0,
     to |-> << <<0, 0, 1, 0, 0>>, <<1, 1, 1, 1, 1>> >>,
     final |-> {1},
     accepted |-> << << >>, <<0>> >>]
\* regexp 0: a anywhere, regexp 1: b anywhere; the state is what has been seen.
MultiContains ==
    [kind |-> "multi", initial |-> 0,
     to |-> << <<0, 1, 2, 0, 0>>, <<1, 1, 3, 1, 1>>, <<2, 3, 2, 2, 2>>,
               <<3, 3, 3, 3, 3>> >>,
     final |-> {1, 2, 3},
     accepted |-> << << >>, <<0>>, <<1>>, <<0, 1>> >>]
BenchScanners == {SimpleAnchored, SimpleContains, MultiContains}

\* Scanner::Initialize, Scanner::Next, Scanner::Final, Scanner::AcceptedRegexps
BenchInitialize(sc) == sc.initial
BenchNext(sc, st, ch) == sc.to[st + 1][Translate(ch) + 1]
BenchFinal(sc, st) == st \in sc.final
AcceptedRegexps(sc, st) == sc.accepted[st + 1]

\* PrintResult<Scanner>::Do: the line written for state st.
PrintResult(sc, st) ==
    IF sc.kind = "multi"
    THEN [text |-> "Accepted regexps:", ids |-> AcceptedRegexps(sc, st)]
    ELSE [text |-> IF BenchFinal(sc, st) THEN "Match" ELSE "No match", ids |-> << >>]

\* Pire::RunHelper: the State it owns, with the symbols fed to it so far.
\* Its constructor initializes the State, whatever the memory held.
RunHelperCtor(sc, mem) == [st |-> BenchInitialize(sc), fed |-> << >>]
RunHelperStep(sc, rh, ch) ==
    [st |-> BenchNext(sc, rh.st, ch), fed |-> Append(rh.fed, ch)]
RunHelperBegin(sc, rh) == RunHelperStep(sc, rh, BeginMark)
RECURSIVE RunHelperRun(_, _, _)
RunHelperRun(sc, rh, w) ==
    IF w = << >> THEN rh
    ELSE RunHelperRun(sc, RunHelperStep(sc, rh, Head(w)), Tail(w))
RunHelperEnd(sc, rh) == RunHelperStep(sc, rh, EndMark)

\* Tester::Run:
\* PrintResult<Scanner>::Do(sc, Pire::Runner(sc).Begin().Run(begin, end).End().State());
TesterRun(sc, mem, w) ==
    LET rh == RunHelperEnd(sc,
                  RunHelperRun(sc,
                      RunHelperBegin(sc, RunHelperCtor(sc, mem)), w))
    IN  [rh |-> rh, out |-> PrintResult(sc, rh.st)]

\* Pire::ScannerPair: the State is a pair, each symbol goes to both scanners.
PairCtor(sc1, sc2, mem) ==
    [first |-> RunHelperCtor(sc1, mem[1]), second |-> RunHelperCtor(sc2, mem[2])]
PairStep(sc1, sc2, rh, ch) ==
    [first |-> RunHelperStep(sc1, rh.first, ch),
     second |-> RunHelperStep(sc2, rh.second, ch)]
RECURSIVE PairRun(_, _, _, _)
PairRun(sc1, sc2, rh, w) ==
    IF w = << >> THEN rh
    ELSE PairRun(sc1, sc2, PairStep(sc1, sc2, rh, Head(w)), Tail(w))

\* Pire::RunHelper<Scanner> keeps the address of the scanner it is constructed
\* from (const Scanner* Sc). The Pair(sc1, sc2) of PairTester::Run is a
\* temporary that ends with the declaration of rh, so that Begin, Run and End
\* work through the address of a dead object. What a build makes of that:
\* the storage still holds the pair ("intact"), it holds something else and the
\* runner ends in whatever states that leads to ("clobbered"), or the access
\* ends the process, by a signal or by an exception that main reports
\* ("fault").
PairLives == {"intact", "clobbered", "fault"}

\* PairTester::Run:
\* RunHelper<Pair> rh(Pair(sc1, sc2)); rh.Begin().Run(begin, end).End();
\* then PrintResult of rh.State().first and of rh.State().second.
\* junk: the states the runner over clobbered storage ends in, each one of
\* the first two states of its table; nothing is known to have been fed to
\* sc1 and sc2 then.
PairTesterRun(sc1, sc2, mem, w, life, junk) ==
    LET rh == PairStep(sc1, sc2,
                  PairRun(sc1, sc2,
                      PairStep(sc1, sc2, PairCtor(sc1, sc2, mem), BeginMark), w),
                  EndMark)
        lost == [first |-> [st |-> junk[1], fed |-> << >>],
                 second |-> [st |-> junk[2], fed |-> << >>]]
    IN  CASE life = "intact" ->
                [rh |-> rh, killed |-> FALSE,
                 out |-> <<PrintResult(sc1, rh.first.st), PrintResult(sc2, rh.second.st)>>]
          [] life = "clobbered" ->
                [rh |-> lost, killed |-> FALSE,
                 out |-> <<PrintResult(sc1, junk[1]), PrintResult(sc2, junk[2])>>]
          [] life = "fault" ->
                [rh |-> PairCtor(sc1, sc2, mem), killed |-> TRUE, out |-> << >>]

\* What the memory of the runner's State may hold before its constructor, and
\* what a runner over clobbered storage may leave there: one of the first two
\* states, which every table has.
BenchGarbage == {0, 1}

\* Main runs the tester this many times on the mapped file.
BenchRuns == 3

\* What Main hands to Run: the bytes of a file FileMmap has mapped, and mmap
\* maps no file of length 0.
BenchInputs == Inputs \ {<< >>}

InitBench ==
    /\ CoreIdle
    /\ phase = "bench"
    /\ share = << >>
    /\ comp = << >>
    /\ cli = << >>
    /\ \E scs \in {<<a>> : a \in BenchScanners}
                    \cup {<<a, b>> : a \in BenchScanners, b \in BenchScanners},
          w \in BenchInputs :
       \E mem \in [1 .. Len(scs) -> BenchGarbage] :
          bench = [scs |-> scs, compiled |-> scs, w |-> w, run |-> 0,
                   mem |-> mem,
                   killed |-> FALSE,
                   fed |-> [k \in 1 .. Len(scs) |-> << >>],
                   reports |-> << >>]

\* for (i = 0; i < 3; ++i) tester->Run(...), the tester being a Tester<Scanner>
BenchTesterRun ==
    /\ phase = "bench"
    /\ Len(bench.scs) = 1
    /\ ~bench.killed
    /\ bench.run < BenchRuns
    /\ LET r == TesterRun(bench.scs[1], bench.mem[1], bench.w)
       IN  bench' = [bench EXCEPT
                        !.run = @ + 1,
                        !.mem = <<r.rh.st>>,
                        !.fed = <<r.rh.fed>>,
                        !.reports = Append(@, <<r.out>>)]
    /\ UNCHANGED <<coreVars, phase, share, comp, cli>>

\* for (i = 0; i < 3; ++i) tester->Run(...), the tester being a PairTester;
\* a run that ends the process prints nothing and is the last.
BenchPairTesterRun(life, junk) ==
    /\ phase = "bench"
    /\ Len(bench.scs) = 2
    /\ ~bench.killed
    /\ bench.run < BenchRuns
    /\ LET r == PairTesterRun(bench.scs[1], bench.scs[2], bench.mem, bench.w, life, junk)
       IN  bench' = IF r.killed
                    THEN [bench EXCEPT !.killed = TRUE]
                    ELSE [bench EXCEPT
                             !.run = @ + 1,
                             !.mem = <<r.rh.first.st, r.rh.second.st>>,
                             !.fed = <<r.rh.first.fed, r.rh.second.fed>>,
                             !.reports = Append(@, r.out)]
    /\ UNCHANGED <<coreVars, phase, share, comp, cli>>

NextBench ==
    \/ BenchTesterRun
    \/ \E life \in PairLives, junk \in [1 .. 2 -> BenchGarbage] :
          BenchPairTesterRun(life, junk)

SpecBench == InitBench /\ [][NextBench]_vars

\* ------------------------------------------------------------- SpecCompile: gluing
\* What Compile sees of a scanner: whether it is the Empty sentinel and, in
\* their order, the regexps it recognises.
MaxPatterns == 3
Regexps == {"a", "b", "c"}
FsmLists == UNION {[1 .. k -> Regexps] : k \in 0 .. MaxPatterns}
EmptyScanner == [empty |-> TRUE, regs |-> << >>]
\* The compile-time errors an FSM construction raises to its caller.
FsmErrors == {"FsmTooLarge", "ScannerTooLarge"}
\* Pire::Fsm(re).Compile<Pire::Scanner>(): the scanner of re, or, when the
\* construction fails with err, that error raised and no scanner.
FsmCompile(re, err) ==
    IF err = "none" THEN [thrown |-> "none", empty |-> FALSE, regs |-> <<re>>]
    ELSE [thrown |-> err, empty |-> TRUE, regs |-> << >>]
\* Pire::Scanner::Glue: the product, the regexps of b numbered after those of
\* a, or the Empty sentinel when the product is too large.
Glue(a, b, tooLarge) ==
    IF tooLarge THEN EmptyScanner
    ELSE [empty |-> FALSE, regs |-> a.regs \o b.regs]

\* msg << i: the decimal digits of i
RECURSIVE Decimal(_)
Decimal(i) ==
    LET digit == <<"0", "1", "2", "3", "4", "5", "6", "7", "8", "9">>
    IN  IF i < 10 THEN digit[i + 1] ELSE Decimal(i \div 10) \o digit[(i % 10) + 1]
\* msg << "Scanner gluing failed at regexp #" << i - fsms.begin()
\*     << " - pattern too complicated"
GlueError(i) ==
    "Scanner gluing failed at regexp #" \o Decimal(i) \o " - pattern too complicated"

\* The loop of Compile without the test of the glued scanner.
RECURSIVE CompileLoop_IgnoreEmpty(_, _, _, _, _, _, _)
CompileLoop_IgnoreEmpty(fsms, i, sc, glues, failAt, badAt, err) ==
    IF i = Len(fsms)
    THEN [outcome |-> "returned", sc |-> sc, glues |-> glues, err |-> 0]
    ELSE LET tsc == FsmCompile(fsms[i + 1], IF i = badAt THEN err ELSE "none")
         IN  IF tsc.thrown # "none"
             THEN [outcome |-> tsc.thrown, sc |-> EmptyScanner,
                   glues |-> glues, err |-> i]
             ELSE IF i = 0
             THEN CompileLoop_IgnoreEmpty(fsms, i + 1, [empty |-> tsc.empty, regs |-> tsc.regs],
                                          glues, failAt, badAt, err)
             ELSE LET g == Glue(sc, tsc, i = failAt)
                      log == Append(glues, [i |-> i, lhs |-> sc.regs,
                                            rhs |-> tsc.regs, empty |-> g.empty])
                  IN  CompileLoop_IgnoreEmpty(fsms, i + 1, g, log, failAt, badAt, err)

\* Compile< Pire::Impl::Scanner<Relocation> >::Do from its i-th regexp on
\* (i counts from 0); Glue finds the product too large at regexp failAt (0:
\* at none), the construction of regexp badAt fails with err ("none": none
\* fails).
RECURSIVE CompileLoop(_, _, _, _, _, _, _)
CompileLoop(fsms, i, sc, glues, failAt, badAt, err) ==
    IF i = Len(fsms)
    THEN [outcome |-> "returned", sc |-> sc, glues |-> glues, err |-> 0]
    ELSE LET tsc == FsmCompile(fsms[i + 1], IF i = badAt THEN err ELSE "none")
         IN  IF tsc.thrown # "none"
             THEN [outcome |-> tsc.thrown, sc |-> EmptyScanner,
                   glues |-> glues, err |-> i]
             ELSE IF i = 0
             THEN CompileLoop(fsms, i + 1, [empty |-> tsc.empty, regs |-> tsc.regs],
                              glues, failAt, badAt, err)
             ELSE LET g == Glue(sc, tsc, i = failAt)
                      log == Append(glues, [i |-> i, lhs |-> sc.regs,
                                            rhs |-> tsc.regs, empty |-> g.empty])
                  IN  IF g.empty
                      THEN [outcome |-> GlueError(i),
                            sc |-> g, glues |-> log, err |-> i]
                      ELSE CompileLoop(fsms, i + 1, g, log, failAt, badAt, err)

\* Compile< Pire::Impl::Scanner<Relocation> >::Do
CompileDo(fsms, failAt, badAt, err) ==
    CompileLoop(fsms, 0, EmptyScanner, << >>, failAt, badAt, err)

InitCompile ==
    /\ CoreIdle
    /\ phase = "compile"
    /\ share = << >>
    /\ bench = << >>
    /\ cli = << >>
    /\ \E fsms \in FsmLists :
          comp = [fsms |-> fsms, failAt |-> 0, badAt |-> 0, err |-> "none",
                  done |-> FALSE, result |-> CompileDo(<< >>, 0, 0, "none")]

\* One call of Compile<Scanner>::Do(fsms); failAt = 0: no Glue fails;
\* err = "none": every regexp compiles.
CompileCall(failAt, badAt, err) ==
    /\ phase = "compile"
    /\ ~comp.done
    /\ failAt < Len(comp.fsms) \/ failAt = 0
    /\ IF err = "none" THEN badAt = 0 ELSE badAt < Len(comp.fsms)
    /\ comp' = [comp EXCEPT !.failAt = failAt, !.badAt = badAt, !.err = err,
                            !.done = TRUE,
                            !.result = CompileDo(comp.fsms, failAt, badAt, err)]
    /\ UNCHANGED <<coreVars, phase, share, bench, cli>>

NextCompile ==
    \E failAt \in 0 .. MaxPatterns, badAt \in 0 .. MaxPatterns,
       err \in FsmErrors \cup {"none"} : CompileCall(failAt, badAt, err)

SpecCompile == InitCompile /\ [][NextCompile]_vars

\* ------------------------------------------------------------- SpecMain: the command line
\* Main reads its arguments one option at a time: -t type opens a group of
\* regexps, -f file names the input, -e regexp and a bare word add a regexp
\* to the last group. An option word with no word after it is a bare word.
MaxArgs == 4
TypeWords == {"multi", "simple", "bogus"}
UsageError == "Usage: bench -f file -t {multi|nonreloc|simple|slow|null} regexp [regexp2 [-e regexp3...]] [-t <type> regexp4 [regexp5...]]"
OneRegexpError == "Only one regexp is allowed for this scanner"
OneSetError == "Only one set of regexps is allowed for this scanner"
TwoSetsError == "Only two sets of regexps are allowed for this scanner"
OpenError == "open failed for "
FstatError == "fstat failed for"
MmapError == "mmap failed for "

\* strerror(errno)
Strerror(errno) ==
    CASE errno = "EPERM" -> "Operation not permitted"
      [] errno = "ENOENT" -> "No such file or directory"
      [] errno = "EINTR" -> "Interrupted system call"
      [] errno = "EIO" -> "Input/output error"
      [] errno = "ENXIO" -> "No such device or address"
      [] errno = "EBADF" -> "Bad file descriptor"
      [] errno = "EAGAIN" -> "Resource temporarily unavailable"
      [] errno = "ENOMEM" -> "Cannot allocate memory"
      [] errno = "EACCES" -> "Permission denied"
      [] errno = "EFAULT" -> "Bad address"
      [] errno = "EBUSY" -> "Device or resource busy"
      [] errno = "ENODEV" -> "No such device"
      [] errno = "ENOTDIR" -> "Not a directory"
      [] errno = "EINVAL" -> "Invalid argument"
      [] errno = "ENFILE" -> "Too many open files in system"
      [] errno = "EMFILE" -> "Too many open files"
      [] errno = "EFBIG" -> "File too large"
      [] errno = "EROFS" -> "Read-only file system"
      [] errno = "ENAMETOOLONG" -> "File name too long"
      [] errno = "ELOOP" -> "Too many levels of symbolic links"
      [] errno = "EOVERFLOW" -> "Value too large for defined data type"
Errnos == {"EPERM", "ENOENT", "EINTR", "EIO", "ENXIO", "EBADF", "EAGAIN",
           "ENOMEM", "EACCES", "EFAULT", "EBUSY", "ENODEV", "ENOTDIR", "EINVAL",
           "ENFILE", "EMFILE", "EFBIG", "EROFS", "ENAMETOOLONG", "ELOOP",
           "EOVERFLOW"}
\* What the system makes of the file named by -f is its to choose: open,
\* fstat and mmap all succeed ("none"), open never returns ("blocks"), or one
\* of the three is the first to fail and leaves an errno.
FileOutcomes ==
    [step : {"none", "blocks"}, errno : {"EINVAL"}]
        \cup [step : {"open", "fstat", "mmap"}, errno : Errnos]
\* FileMmap::FileMmap(name): open, fstat, mmap of st_size bytes; the first
\* call that fails throws.
FileMmap(name, fo) ==
    LET failed(prefix) ==
            [mapped |-> FALSE, blocked |-> FALSE,
             what |-> prefix \o name \o ": " \o Strerror(fo.errno)]
    IN  CASE fo.step = "open" -> failed(OpenError)
          [] fo.step = "fstat" -> failed(FstatError)
          [] fo.step = "mmap" -> failed(MmapError)
          [] fo.step = "blocks" -> [mapped |-> FALSE, blocked |-> TRUE, what |-> ""]
          [] fo.step = "none" -> [mapped |-> TRUE, blocked |-> FALSE, what |-> ""]

\* What goes wrong inside tester->Compile is the library's to choose: nothing,
\* or, in the scanner of group sc, the Glue at regexp failAt or the
\* construction of regexp badAt. A call that throws ends Compile, so that more
\* than one failure is the same as the first of them alone.
CompileFaults ==
    [sc : {1}, failAt : {0}, badAt : {0}, err : {"none"}]
        \cup [sc : {1, 2}, failAt : 1 .. MaxArgs, badAt : {0}, err : {"none"}]
        \cup [sc : {1, 2}, failAt : {0}, badAt : 0 .. MaxArgs, err : FsmErrors]
NoFault == [sc |-> 1, failAt |-> 0, badAt |-> 0, err |-> "none"]

\* What a call of tester->Run comes to. A Tester's run returns. The runner of
\* a PairTester works through the address of a dead temporary (PairLives): its
\* run returns, or it ends the process, by a signal or by an exception that
\* main catches and reports.
RunOutcomes(types) ==
    IF Len(types) = 2 THEN {"returns", "signal", "exception"} ELSE {"returns"}

Thrown(c, msg) == [c EXCEPT !.pc = "done", !.outcome = msg]

\* !strcmp(*argv, "-t") && argc >= 2
ParseT(c, type) ==
    [c EXCEPT !.types = Append(@, type), !.fsms = Append(@, << >>)]
\* !strcmp(*argv, "-f") && argc >= 2
ParseF(c, name) == [c EXCEPT !.file = name]
\* !strcmp(*argv, "-e") && argc >= 2, and the last branch: a bare word
ParseRegexp(c, re) ==
    IF c.fsms = << >> THEN Thrown(c, UsageError)
    ELSE [c EXCEPT !.fsms[Len(c.fsms)] = Append(@, re)]

\* The chain of tests that picks the tester: TRUE when one of them holds.
PairTypes == {"multi", "simple", "nonreloc"}
KnownTester(types) ==
    \/ Len(types) = 1 /\ types[1] \in {"multi", "nonreloc", "simple", "slow", "null"}
    \/ Len(types) = 2 /\ types[1] \in PairTypes /\ types[2] \in PairTypes

\* ::Compile<Scanner>::Do(group): the fold for Pire::Impl::Scanner<Relocation>,
\* one regexp only for the others.
ScannerCompile(type, group, cf) ==
    IF type \in {"multi", "nonreloc"}
    THEN CompileDo(group, cf.failAt, cf.badAt, cf.err).outcome
    ELSE IF Len(group) # 1 THEN OneRegexpError
    ELSE IF FsmCompile(group[1], IF cf.badAt = 0 THEN cf.err ELSE "none").thrown # "none"
         THEN cf.err
         ELSE "returned"

\* tester->Compile(fsms): MemTester, Tester<Scanner> or PairTester
TesterCompile(types, fsms, cf) ==
    LET of(k) == IF cf.sc = k THEN cf ELSE NoFault
    IN  IF Len(types) = 1
        THEN IF types[1] = "null" THEN "returned"
             ELSE IF Len(fsms) # 1 THEN OneSetError
             ELSE ScannerCompile(types[1], fsms[1], of(1))
        ELSE IF Len(fsms) # 2 THEN TwoSetsError
             ELSE IF ScannerCompile(types[1], fsms[1], of(1)) # "returned"
                  THEN ScannerCompile(types[1], fsms[1], of(1))
                  ELSE ScannerCompile(types[2], fsms[2], of(2))

\* Main from the end of its argument loop to tester->Compile(fsms); cf: what
\* goes wrong in tester->Compile.
MainCompile(c, cf) ==
    IF c.types = << >> \/ c.file = "" \/ c.fsms[Len(c.fsms)] = << >>
    THEN Thrown(c, UsageError)
    ELSE IF ~KnownTester(c.types) THEN Thrown(c, UsageError)
    ELSE LET r == TesterCompile(c.types, c.fsms, cf)
             c1 == [c EXCEPT !.compiled = TRUE]
         IN  IF r # "returned" THEN Thrown(c1, r) ELSE [c1 EXCEPT !.pc = "open"]

\* FileMmap fmap(file); fo: what the system makes of the file named by -f.
MainFileMmap(c, fo) ==
    IF FileMmap(c.file, fo).blocked THEN [c EXCEPT !.pc = "blocked"]
    ELSE IF ~FileMmap(c.file, fo).mapped THEN Thrown(c, FileMmap(c.file, fo).what)
    ELSE [c EXCEPT !.pc = "run"]

\* One turn of for (int i = 0; i < 3; ++i) { tester->Run(...); }, and the end
\* of Main after the last.
MainRun(c, how) ==
    CASE how = "signal" -> [c EXCEPT !.pc = "done", !.outcome = "killed"]
      [] how = "exception" -> [c EXCEPT !.pc = "done", !.outcome = "exception"]
      [] how = "returns" ->
            IF c.runs + 1 = BenchRuns
            THEN [c EXCEPT !.runs = @ + 1, !.pc = "done", !.outcome = "ok"]
            ELSE [c EXCEPT !.runs = @ + 1]

InitMain ==
    /\ CoreIdle
    /\ phase = "main"
    /\ share = << >>
    /\ bench = << >>
    /\ comp = << >>
    /\ cli = [args |-> << >>, types |-> << >>, fsms |-> << >>, file |-> "",
              pc |-> "parse", lone |-> FALSE, outcome |-> "", compiled |-> FALSE,
              runs |-> 0]

MoreArgs == phase = "main" /\ cli.pc = "parse" /\ ~cli.lone /\ Len(cli.args) < MaxArgs
mainOthers == <<coreVars, phase, share, bench, comp>>

\* argv: -t type
ArgT(type) ==
    /\ MoreArgs
    /\ cli' = [ParseT(cli, type) EXCEPT
                  !.args = Append(@, [kind |-> "t", word |-> type])]
    /\ UNCHANGED mainOthers

\* argv: -f file
ArgF ==
    /\ MoreArgs
    /\ cli' = [ParseF(cli, "file") EXCEPT
                  !.args = Append(@, [kind |-> "f", word |-> "file"])]
    /\ UNCHANGED mainOthers

\* argv: -e regexp
ArgE ==
    /\ MoreArgs
    /\ cli' = [ParseRegexp(cli, "a") EXCEPT
                  !.args = Append(@, [kind |-> "e", word |-> "a"])]
    /\ UNCHANGED mainOthers

\* argv: a bare word; the word -t, the last of argv, is one
ArgWord(w) ==
    /\ MoreArgs
    /\ cli' = [ParseRegexp(cli, w) EXCEPT
                  !.args = Append(@, [kind |-> "w", word |-> w]),
                  !.lone = (w = "-t")]
    /\ UNCHANGED mainOthers

\* argv is used up: the tester is chosen and compiled
ArgsEnd(cf) ==
    /\ phase = "main"
    /\ cli.pc = "parse"
    /\ cli' = MainCompile(cli, cf)
    /\ UNCHANGED mainOthers

\* the file is opened and mapped
OpenFile(fo) ==
    /\ phase = "main"
    /\ cli.pc = "open"
    /\ cli' = MainFileMmap(cli, fo)
    /\ UNCHANGED mainOthers

\* the tester runs once more
RunTester(how) ==
    /\ phase = "main"
    /\ cli.pc = "run"
    /\ how \in RunOutcomes(cli.types)
    /\ cli' = MainRun(cli, how)
    /\ UNCHANGED mainOthers

NextMain ==
    \/ \E type \in TypeWords : ArgT(type)
    \/ ArgF
    \/ ArgE
    \/ \E w \in {"a", "-t"} : ArgWord(w)
    \/ \E cf \in CompileFaults : ArgsEnd(cf)
    \/ \E fo \in FileOutcomes : OpenFile(fo)
    \/ \E how \in {"returns", "signal", "exception"} : RunTester(how)

SpecMain == InitMain /\ [][NextMain]_vars

\* ------------------------------------------------------------- claims
TookAction == inited /\ last.op \in {"TakeAction", "TakeActionImpl"}
ByTakeAction == inited /\ last.op = "TakeAction"
Counted ==
    /\ inited
    /\ last.op \in {"TakeAction", "TakeActionImpl", "PerformIncrementer", "PerformReseter"}
Bump(a, i) == IF IncBit(i) \in a THEN 1 ELSE 0

\* C1: Result(i) never decreases over a TakeAction call, whatever Increment
\* and Reset bits the action word carries (Result(i) being a ui32, compared as
\* one).
C1_ResultMonotone ==
    ByTakeAction => \A i \in ReIdx : ~Ui32Less(Result(s, i), Result(pre, i))

\* C2: for every pattern index i < MAX_RE_COUNT, an action word with bit i set
\* raises current[i] by exactly one (as seen before that word's Reset(i), which
\* then commits the raised value).
C2_IncrementBumps ==
    ByTakeAction =>
        \A i \in ReIdx :
            IncBit(i) \in last.a =>
                IF ResetBit(i) \in last.a
                THEN /\ s.m_current[i] = 0
                     /\ s.m_total[i] = ymax(pre.m_total[i], pre.m_current[i] + 1)
                ELSE s.m_current[i] = pre.m_current[i] + 1

\* C3: after Initialize and any TakeAction calls, bit MAX_RE_COUNT + i of
\* updatedMask is set exactly when current[i] is nonzero, for every i.
C3_UpdatedMaskTracksCurrent ==
    inited =>
        \A i \in ReIdx : (ResetBit(i) \in s.m_updatedMask) <=> (s.m_current[i] # 0)

\* C4: current[i] is the number of Increment(i) bits applied since the last
\* Reset(i) bit, total[i] the longest run a Reset(i) bit has ended.
C4_RunLengthMeaning ==
    inited =>
        \A i \in ReIdx : s.m_current[i] = runLen[i] /\ s.m_total[i] = bestRun[i]

C6_ResetGated ==
    (/\ TookAction
     /\ last.a # {}
     /\ last.a \subseteq ResetMask
     /\ last.a \cap pre.m_updatedMask = {}) =>
        /\ s.m_current = pre.m_current
        /\ s.m_total = pre.m_total
        /\ s.m_updatedMask = pre.m_updatedMask
\* Such a word met a state with counts and mask bits of its own.
C6_Witness ==
    /\ TookAction
    /\ last.a # {}
    /\ last.a \subseteq ResetMask
    /\ last.a \cap pre.m_updatedMask = {}
    /\ pre.m_updatedMask # {}
    /\ \E i \in ReIdx : ResetBit(i) \in last.a /\ pre.m_total[i] > 0

\* C7: Result(i) is the larger of current[i] and total[i] in every state, and
\* a run of Increment(i) bits that no Reset(i) bit has followed yet is counted
\* in Result(i): Result(i) is at least the length of that run.
C7_ResultCountsTrailingRun ==
    inited =>
        \A i \in ReIdx :
            /\ Result(s, i) >= s.m_current[i]
            /\ Result(s, i) >= s.m_total[i]
            /\ Result(s, i) \in {s.m_current[i], s.m_total[i]}
            /\ Result(s, i) >= runLen[i]

\* C8: lowering remaps the tag Matched|Dead to the Increment bits of the
\* tracked patterns, the tag Dead to their Reset bits and every other tag to
\* the zero action; no remapped action has an Increment and a Reset bit.
LoweredPatterns == 0 .. (LoweredReCount - 1)
C8_RemapAction ==
    \A k \in 1 .. Len(lowered) :
        LET r == lowered[k]
        IN  /\ r.tag = (Matched \cup DeadFlag) =>
                   r.action = {IncBit(i) : i \in LoweredPatterns}
            /\ r.tag = DeadFlag =>
                   r.action = {ResetBit(i) : i \in LoweredPatterns}
            /\ r.tag \notin {Matched \cup DeadFlag, DeadFlag} => r.action = {}
            /\ ~(r.action \cap IncrementMask # {} /\ r.action \cap ResetMask # {})
\* The three kinds of tag have been lowered.
C8_Witness ==
    /\ Len(lowered) >= 3
    /\ lowered[1].tag = (Matched \cup DeadFlag) /\ lowered[1].action = {IncBit(0)}
    /\ lowered[2].tag = DeadFlag /\ lowered[2].action = {ResetBit(0)}
    /\ lowered[3].tag = Matched /\ lowered[3].action = {}

\* C9: Final, Dead and CanStop are false in every state a run reaches, and
\* the driver, which leaves its loop early only on CanStop, has consumed the
\* whole input when Run returns.
C9_NeverStops ==
    inited =>
        /\ ~Final(s)
        /\ ~Dead(s)
        /\ ~CanStop(s)
        /\ (phase \in {"fed", "done"} => pos = Len(input))
\* A run over at least two bytes has ended away from the first state with
\* a match counted.
C9_Witness ==
    /\ phase = "done"
    /\ pos = Len(input)
    /\ pos >= 2
    /\ StateIndex(s) # 0
    /\ Result(s, 0) > 0

\* C10: whatever the state held, Initialize leaves the initial DFA state,
\* all counters zero and updatedMask zero, so every Result(i) is 0.
FreshState ==
    [m_state |-> m_initial, m_current |-> ZeroCounters, m_total |-> ZeroCounters,
     m_updatedMask |-> {}]
C10_InitializeFresh ==
    last.op = "Initialize" =>
        /\ s = FreshState
        /\ \A i \in ReIdx : Result(s, i) = 0
\* Initialize ran on a state that had advanced and counted.
C10_Witness ==
    /\ last.op = "Initialize"
    /\ pre.m_state = RowAddr(1)
    /\ pre.m_current[OPTIMAL_RE_COUNT - 1] = 2
    /\ pre.m_total[OPTIMAL_RE_COUNT - 1] = 1
    /\ pre.m_updatedMask # {}


\* C11: after Initialize and any sequence of symbols, the DFA state is the
\* start of a row of the table (StateIndex below the state count), and Next
\* finds a transition of the table for every symbol.
RowStarts == {RowAddr(q) : q \in 0 .. (StatesCount - 1)}
C11_NextStaysInTable ==
    inited =>
        /\ s.m_state \in RowStarts
        /\ StateIndex(s) \in 0 .. (StatesCount - 1)
        /\ \A ch \in Chars :
              /\ (s.m_state - JumpsBase) % TransitionSize = 0
              /\ ((s.m_state - JumpsBase) \div TransitionSize) + Translate(ch)
                    \in DOMAIN m_jumps
\* Next has gone back from the last row to the first one: a negative shift.
C11_Witness ==
    /\ inited
    /\ last.op = "Next"
    /\ StateIndex(pre) = StatesCount - 1
    /\ StateIndex(s) = 0


\* C19: an action word that carries both Increment(i) and Reset(i) of one
\* pattern i counts first and commits second: afterwards current[i] = 0,
\* total[i] = max(old total[i], old current[i] + 1) and the updatedMask bit of
\* i is clear, for every i < MAX_RE_COUNT.
C19_IncrementBeforeReset ==
    ByTakeAction =>
        \A i \in ReIdx :
            (IncBit(i) \in last.a /\ ResetBit(i) \in last.a) =>
                /\ s.m_current[i] = 0
                /\ s.m_total[i] = ymax(pre.m_total[i], pre.m_current[i] + 1)
                /\ ResetBit(i) \notin s.m_updatedMask


\* C17 as stated: Next (and NextTranslated under it) changes only the DFA
\* state, TakeAction changes only current[], total[] and updatedMask, and the
\* two-state Next(current, n, c) leaves current as it was and makes n what the
\* in-place Next makes of a copy of current, whatever objects it is given.
CountersOf(st) == <<st.m_current, st.m_total, st.m_updatedMask>>
AdvanceOnly ==
    last.op = "Next" =>
        /\ CountersOf(s) = CountersOf(pre)
        /\ s.m_state = NextTranslated(pre, Translate(last.ch)).st.m_state
CountOnly == TookAction => s.m_state = pre.m_state
C17_AdvanceAndCountSeparate ==
    inited =>
        /\ AdvanceOnly
        /\ CountOnly
        /\ last.op = "NextCopy" =>
              /\ s = pre
              /\ nCopy = NextChar(pre, last.ch).st
              /\ CountersOf(nCopy) = CountersOf(pre)
        /\ last.op = "NextSelf" =>
              /\ s = pre
              /\ s = NextChar(pre, last.ch).st
\* C17 amended: the two-state Next leaves current as it was when n is another
\* object; given one object for both, it advances that object in place, as
\* Next(state, c) does.
C17_SeparateUnlessAliased ==
    inited =>
        /\ AdvanceOnly
        /\ CountOnly
        /\ last.op = "NextCopy" =>
              /\ s = pre
              /\ nCopy = NextChar(pre, last.ch).st
              /\ CountersOf(nCopy) = CountersOf(pre)
        /\ last.op = "NextSelf" =>
              /\ s = NextChar(pre, last.ch).st
              /\ CountersOf(s) = CountersOf(pre)
\* Given one object for both, the two-state Next has moved it, with counters
\* running, to another row.
C17_Witness ==
    /\ inited
    /\ last.op = "NextSelf"
    /\ s.m_state # pre.m_state
    /\ s.m_state = NextChar(pre, last.ch).st.m_state
    /\ s.m_current[OPTIMAL_RE_COUNT - 1] > 0
    /\ s.m_total[OPTIMAL_RE_COUNT - 1] > 0

\* C18: an action word whose only bits are Increment(i) and/or Reset(i) leaves
\* current[j], total[j] and the updatedMask bit of j alone for every j # i,
\* and after any action words Result(j) is what the words' bits of j alone
\* would have given.
C18_PatternsIndependent ==
    inited =>
        /\ Counted =>
              \A i \in ReIdx :
                  last.a \subseteq {IncBit(i), ResetBit(i)} =>
                      \A j \in ReIdx \ {i} :
                          /\ s.m_current[j] = pre.m_current[j]
                          /\ s.m_total[j] = pre.m_total[j]
                          /\ (ResetBit(j) \in s.m_updatedMask)
                                <=> (ResetBit(j) \in pre.m_updatedMask)
        /\ \A j \in Patterns :
              /\ Result(s, j) = Result(solo[j], j)
              /\ s.m_current[j] = solo[j].m_current[j]
              /\ s.m_total[j] = solo[j].m_total[j]
\* A word for one pattern has been applied while the other pattern has a
\* completed run and a running one.
C18_Witness ==
    /\ inited
    /\ last.op = "TakeActionImpl"
    /\ pre.m_current[OPTIMAL_RE_COUNT] > 0
    /\ last.a = {IncBit(OPTIMAL_RE_COUNT), ResetBit(OPTIMAL_RE_COUNT)}
    /\ pre.m_current[OPTIMAL_RE_COUNT - 1] > 0
    /\ pre.m_total[OPTIMAL_RE_COUNT - 1] > pre.m_current[OPTIMAL_RE_COUNT - 1]
    /\ Result(s, OPTIMAL_RE_COUNT - 1) = pre.m_total[OPTIMAL_RE_COUNT - 1]


\* A call of reader r: the step moves r on.
CallOf(r) == share'.readers[r].pc # share.readers[r].pc
Bracketed(w) == <<BeginMark>> \o w \o <<EndMark>>
\* The state a scanner is in after the symbols of a log, fed from its start.
RECURSIVE StateAfter(_, _)
StateAfter(sc, log) ==
    IF log = << >> THEN BenchInitialize(sc)
    ELSE BenchNext(sc, StateAfter(sc, SubSeq(log, 1, Len(log) - 1)), log[Len(log)])
GlueLogged(r, fsms) ==
    \A k \in 1 .. Len(r.glues) :
        /\ r.glues[k].i = k
        /\ r.glues[k].lhs = SubSeq(fsms, 1, k)
        /\ r.glues[k].rhs = <<fsms[k + 1]>>
GlueFailed(r) == \E k \in 1 .. Len(r.glues) : r.glues[k].empty
LeftFold(r, fsms) ==
    /\ r.outcome = "returned"
    /\ r.sc.regs = fsms
    /\ r.sc.empty <=> (Len(fsms) = 0)
    /\ Len(r.glues) = (IF Len(fsms) = 0 THEN 0 ELSE Len(fsms) - 1)
StopsAtFailedGlue(r) ==
    /\ r.err \in 1 .. Len(r.glues)
    /\ r.outcome = GlueError(r.err)
    /\ r.glues[r.err].empty
    /\ Len(r.glues) = r.err
    /\ \A k \in 1 .. (r.err - 1) : ~r.glues[k].empty
C15_GlueFailureRaised ==
    (phase = "compile" /\ comp.done) =>
        LET r == comp.result
        IN  /\ GlueLogged(r, comp.fsms)
            /\ IF GlueFailed(r) THEN StopsAtFailedGlue(r) ELSE LeftFold(r, comp.fsms)
            /\ r.outcome = "returned" => ~GlueFailed(r)
\* C15, amended: Compile stops at the first regexp i >= 1 whose Glue returns
\* the Empty sentinel, with an error that names i and no Glue after it; a
\* regexp whose construction fails ends Compile with that compile-time error
\* before it is glued, with no Glue after it; otherwise Compile returns the left
\* fold of its regexps; it never returns after a Glue that failed.
C15_GlueOrConstructionRaised ==
    (phase = "compile" /\ comp.done) =>
        LET r == comp.result
        IN  /\ GlueLogged(r, comp.fsms)
            /\ IF GlueFailed(r) THEN StopsAtFailedGlue(r) /\ r.err = comp.failAt
               ELSE IF r.outcome \in FsmErrors
                    THEN /\ r.outcome = comp.err
                         /\ r.err = comp.badAt
                         /\ Len(r.glues) = (IF r.err = 0 THEN 0 ELSE r.err - 1)
                         /\ comp.failAt = 0 \/ comp.failAt >= comp.badAt
                    ELSE /\ LeftFold(r, comp.fsms)
                         /\ comp.err = "none"
                         /\ comp.failAt = 0
            /\ r.outcome = "returned" => ~GlueFailed(r)
\* The first Glue of three regexps fails although the third regexp would not
\* compile: the error names regexp 1 and the third regexp is never reached.
C15_Witness ==
    /\ phase = "compile"
    /\ comp.done
    /\ Len(comp.fsms) = MaxPatterns
    /\ comp.failAt = 1
    /\ comp.badAt = 2
    /\ comp.err # "none"
    /\ comp.result.outcome = "Scanner gluing failed at regexp #1 - pattern too complicated"
    /\ comp.result.err = 1
    /\ Len(comp.result.glues) = 1


\* C16: whenever the arguments have a -t group with no regexp, a regexp before
\* the first -t, no -f or no -t, Main ends with the usage error and has
\* neither compiled nor run a tester.
IsRegexpArg(a) == a.kind \in {"e", "w"}
\* The regexps of the group that the -t at position i opens.
GroupOf(args, i) ==
    {j \in (i + 1) .. Len(args) :
        /\ IsRegexpArg(args[j])
        /\ \A k \in (i + 1) .. (j - 1) : args[k].kind # "t"}
BadArgs(args) ==
    \/ \A i \in 1 .. Len(args) : args[i].kind # "t"
    \/ \A i \in 1 .. Len(args) : args[i].kind # "f"
    \/ \E j \in 1 .. Len(args) :
          IsRegexpArg(args[j]) /\ \A k \in 1 .. (j - 1) : args[k].kind # "t"
    \/ \E i \in 1 .. Len(args) : args[i].kind = "t" /\ GroupOf(args, i) = {}
C16_UsageContract ==
    (phase = "main" /\ cli.pc # "parse" /\ BadArgs(cli.args)) =>
        /\ cli.pc = "done"
        /\ cli.outcome = UsageError
        /\ ~cli.compiled
        /\ cli.runs = 0

====
